---------------------------- MODULE Spec2Model ----------------------------
(***************************************************************************)
(* A model of the design-pattern examples of design-patterns-python.      *)
(*                                                                         *)
(* The repository holds independent example programs.  The variable       *)
(* `program` names the one a behaviour runs; every action belongs to one  *)
(* program and leaves the state of the others alone.                       *)
(*                                                                         *)
(*   Composite_pipelining.py   the aggregating Pipeline (a list of stages) *)
(*   Decorator_pipelining.py   the linked-chain Pipeline (next references) *)
(*   ChainOfResponsibility.py  ChainExceptionHandler and its handlers      *)
(*   Decorator_Http.py         the HTTP request handler decorators         *)
(***************************************************************************)
EXTENDS Integers, Sequences, FiniteSets, TLC

VARIABLES
    program,          \* which example program this behaviour runs
    \* ---- Composite_pipelining.py
    transformations,  \* Pipeline.__transformations, per Pipeline object
    cConstructed,     \* the Pipeline objects whose __init__ has returned
    cStack,           \* the active Pipeline.transform frames, innermost last
    cCalls,           \* the stages whose transform was invoked by the current call
    cResult,          \* the outcome of the top-level Pipeline.transform call
    cLastOp,          \* the last Pipeline.__init__ / append call and what it gave
    \* ---- ChainOfResponsibility.py
    exception_handlers, \* ChainExceptionHandler.__exception_handlers
    handling_context,   \* the ExceptionHandlingContext of the current call
    ePc,                \* where handle_exception is: "idle", "loop" or "done"
    eIdx,               \* the position of the loop over the handlers
    eInvoked,           \* the handlers invoked by the current call, in order
    eEvents,            \* the calls made to logger, plugin loader and shutdown
    ePrev,              \* how the call before the current one ended
    \* ---- Decorator_pipelining.py
    next_step,        \* DatasetTransformerStepBase.__next_step, per step object
    transformers,     \* Pipeline.transformers, per Pipeline object
    lConstructed,     \* the Pipeline objects whose __init__ has returned
    lRewires,         \* the direct set_next_step calls callers have made
    lRun,             \* the current or last transform call: where it is, its outcome
    lLastOp,          \* the last Pipeline.__init__ / append / set_next_step call
    \* ---- Decorator_Http.py
    hHandler,         \* the handler object: its decorators, outermost first, then the base
    hRequest,         \* the HttpRequest of the current call
    hDepth,           \* the handler (position in hHandler) that is running; 0: the caller
    hPhase,           \* "idle", "enter" (handle starts), "resume" (inner call is over), "done"
    hOutcome,         \* per position, how its handle call ended in the current call
    hLog,             \* the writes to log.txt of the current call, in order
    hCalls,           \* the positions whose handle the current call invoked, in order
    hIo,              \* what the file operations of the current call did, in order
    \* ---- Composite_side_effects.py
    sLogger,          \* the HotColdLogger object: its hot path and cold path loggers
    sStack,           \* the active log calls, innermost last
    sCall,            \* the caller's current or last log call and how it ended
    sInvoked,         \* the log calls made in the current call, in order
    sOut              \* what the loggers printed or wrote in the current call

cvars == <<transformations, cConstructed, cStack, cCalls, cResult, cLastOp>>

evars == <<exception_handlers, handling_context, ePc, eIdx, eInvoked, eEvents,
           ePrev>>

lvars == <<next_step, transformers, lConstructed, lRewires, lRun, lLastOp>>

hvars == <<hHandler, hRequest, hDepth, hPhase, hOutcome, hLog, hCalls, hIo>>

svars == <<sLogger, sStack, sCall, sInvoked, sOut>>

vars == <<program, cvars, evars, lvars, hvars, svars>>

(***************************************************************************)
(* Bounds of the model.                                                    *)
(***************************************************************************)
\* the stage references all aggregating pipelines hold together
MaxStages == 3
\* the positional arguments of one Pipeline(...) call
MaxCtorArgs == 2
\* the handlers a ChainExceptionHandler is configured with
MaxHandlers == 4
\* the step references all linked-chain pipelines hold together
MaxLinks == 3
\* the positional arguments of one linked-chain Pipeline(...) call
MaxLinkArgs == 2
\* the set_next_step calls callers make themselves
MaxRewires == 1
\* the decorators wrapped around an OkHttpRequestHandler
MaxDecorators == 3
\* the loggers one ForEachLogger is constructed with
MaxLoggers == 3

(***************************************************************************)
(* Values shared by the programs.                                          *)
(***************************************************************************)
\* "no exception"
NoExc == [type |-> "", by |-> ""]

Exc(t, who) == [type |-> t, by |-> who]

\* The result of a call: a returned value or a raised exception.
Returned(v) == [ok |-> TRUE, val |-> v, exc |-> NoExc]

Raised(e) == [ok |-> FALSE, val |-> <<>>, exc |-> e]

\* All sequences over S of length at most n.
SeqUpTo(S, n) == UNION {[1..k -> S] : k \in 0..n}

RECURSIVE SumLen(_, _)
SumLen(f, D) ==
    IF D = {} THEN 0
    ELSE LET d == CHOOSE d \in D : TRUE
         IN  Len(f[d]) + SumLen(f, D \ {d})

(***************************************************************************)
(*                        Composite_pipelining.py                          *)
(*                                                                         *)
(* A Dataset is modelled by the sequence of marks the callables left on   *)
(* it; the Ellipsis object that ColumnsSelectorTransformer returns is the  *)
(* value <<"...">>.                                                        *)
(***************************************************************************)
CPipelines == {"P1", "P2"}

\* The leaf stage objects: one AddTotalsRowTransformer, one
\* ColumnsSelectorTransformer, FunctionTransformer(f) for a callable f that
\* marks the dataset, FunctionTransformer(g) for a callable g that raises and
\* FunctionTransformer(h) for a callable h that appends a stage to a pipeline
\* and returns its dataset.
CLeaves == {"AddTotals", "ColSel", "FnMark", "FnRaise", "FnAppend"}

\* h is lambda ds: (target.append(stage), ds)[1] for this pipeline and stage;
\* it stops appending once the pipelines hold MaxStages stages.
FnAppendTarget == "P1"

FnAppendStage == "FnMark"

CStages == CLeaves \cup CPipelines

CInputs == {<<"x">>, <<"y">>}

Ellipsis == <<"...">>

\* AddTotalsRowTransformer.transform
AddTotalsRowTransformer_transform(dataset) == Returned(dataset)

\* ColumnsSelectorTransformer.transform: new_dataset = ...; return new_dataset
ColumnsSelectorTransformer_transform(dataset) == Returned(Ellipsis)

\* FunctionTransformer.transform: return self.__transformer(dataset)
FunctionTransformer_transform(s, dataset) ==
    IF s = "FnRaise" THEN Raised(Exc("StageError", s))
    ELSE IF s = "FnAppend" THEN Returned(dataset)
    ELSE Returned(Append(dataset, "m"))

\* transformation.transform(dataset) for a leaf stage
LeafTransform(s, dataset) ==
    CASE s = "AddTotals" -> AddTotalsRowTransformer_transform(dataset)
      [] s = "ColSel"    -> ColumnsSelectorTransformer_transform(dataset)
      [] OTHER           -> FunctionTransformer_transform(s, dataset)

\* No stage class of the file defines __iter__ or __getitem__: only a tuple
\* argument is iterable.
IsIterable(arg) == arg.kind = "tuple"

StageArg(s) == [kind |-> "stage", ref |-> s, items |-> <<>>]

TupleArg(items) == [kind |-> "tuple", ref |-> "", items |-> items]

\* Python's list(*args): list() is empty, list(it) holds the items of an
\* iterable, anything else is a TypeError.
ListCtor(args) ==
    IF Len(args) = 0 THEN Returned(<<>>)
    ELSE IF Len(args) = 1
         THEN IF IsIterable(args[1]) THEN Returned(args[1].items)
              ELSE Raised(Exc("TypeError", "list"))
         ELSE Raised(Exc("TypeError", "list"))

\* The values a caller passes to Pipeline(...): as in main, a leaf stage or an
\* already constructed pipeline; or one tuple holding two leaf stages.
CtorArgValues ==
    {StageArg(s) : s \in {"ColSel"} \cup cConstructed}
        \cup {TupleArg(<<"ColSel", "FnMark">>)}

NoOp == [op |-> "none", self |-> "", args |-> <<>>, before |-> <<>>,
         ret |-> "", exc |-> NoExc]

\* `before` is the stage list of every pipeline when the call started, `after`
\* the append that was the last operation other than a transform call before
\* the call, if one was.
NoResult == [status |-> "none", self |-> "", input |-> <<>>, value |-> <<>>,
             exc |-> NoExc, log |-> <<>>,
             before |-> [p \in CPipelines |-> <<>>], after |-> NoOp]

\* The pipelines nested, at any depth, in pipeline p.
RECURSIVE NestedIn(_, _, _)
NestedIn(T, p, fuel) ==
    IF fuel = 0 THEN {}
    ELSE LET direct == {T[p][i] : i \in 1..Len(T[p])} \cap CPipelines
         IN  direct \cup UNION {NestedIn(T, q, fuel - 1) : q \in direct}

\* A pipeline that contains itself is a caller error (spec section 3): the
\* model's callers never build one.
Acyclic(T) == \A p \in CPipelines : p \notin NestedIn(T, p, Cardinality(CPipelines))

\* Pipeline.__init__(self, *transformations)
CPipelineInit(p, args) ==
    /\ program = "Composite_pipelining"
    /\ cStack = <<>>
    /\ p \notin cConstructed
    /\ LET made == ListCtor(args)
       IN  /\ made.ok => SumLen(transformations, CPipelines) + Len(made.val) <= MaxStages
           /\ IF made.ok
              THEN /\ transformations' = [transformations EXCEPT ![p] = made.val]
                   /\ cConstructed' = cConstructed \cup {p}
              ELSE UNCHANGED <<transformations, cConstructed>>
           /\ cLastOp' = [op |-> "new", self |-> p, args |-> args, before |-> <<>>,
                          ret |-> IF made.ok THEN p ELSE "", exc |-> made.exc]
    /\ cResult' = NoResult
    /\ cCalls' = <<>>
    /\ UNCHANGED <<program, cStack, evars, lvars, hvars, svars>>


\* A bug: append puts the stage first (list.insert(0, transformer)).
ListAppendFront(list, transformer) == <<transformer>> \o list

\* self.__transformations.append(transformer)
ListAppend(list, transformer) == Append(list, transformer)

\* A bug: append returns nothing (None), as a method without a return does.
AppendReturnNone(self) == "None"

\* return self
AppendReturn(self) == self

\* Pipeline.append(self, transformer)
CPipelineAppend(p, t) ==
    /\ program = "Composite_pipelining"
    /\ cStack = <<>>
    /\ p \in cConstructed
    /\ t \in CLeaves \cup cConstructed
    /\ t = "FnAppend" => FnAppendTarget \in cConstructed
    /\ SumLen(transformations, CPipelines) < MaxStages
    /\ Acyclic([transformations EXCEPT ![p] = ListAppend(@, t)])
    /\ transformations' = [transformations EXCEPT ![p] = ListAppend(@, t)]
    /\ cLastOp' = [op |-> "append", self |-> p, args |-> <<StageArg(t)>>,
                   before |-> transformations[p], ret |-> AppendReturn(p),
                   exc |-> NoExc]
    /\ cResult' = NoResult
    /\ cCalls' = <<>>
    /\ UNCHANGED <<program, cConstructed, cStack, evars, lvars, hvars, svars>>

(***************************************************************************)
(* Pipeline.transform, one loop iteration per step.  A frame is one active *)
(* call: `idx` is the position of the list iterator, `dataset` the local   *)
(* variable, `log` the calls this frame has completed.                     *)
(***************************************************************************)
Frame(p, x) == [self |-> p, idx |-> 1, dataset |-> x, input |-> x, log |-> <<>>]

CallRec(s, arg, ret) == [stage |-> s, arg |-> arg, ret |-> ret]

\* for transformation in self.__transformations: the iterator has a next item
LoopHasNext(list, idx) == idx <= Len(list)

\* A bug: the stage's result is dropped, every stage gets the first input.
AssignDatasetDropped(dataset, ret) == dataset

\* dataset = transformation.transform(dataset)
AssignDataset(dataset, ret) == ret

\* A bug: a nested pipeline swallows the exception of its stage, and the
\* calling pipeline goes on with its next stage.
UnwindInnermost(stack) == SubSeq(stack, 1, Len(stack) - 1)

\* Pipeline.transform holds no try/except: a raised exception leaves every
\* active frame.
Unwind(stack) == <<>>

\* A bug: transform falls off its end, and so returns None.
ReturnNothing(dataset) == <<"None">>

\* return dataset
ReturnDataset(dataset) == dataset

CTop == cStack[Len(cStack)]

\* The callable of stage s appends to a pipeline when it runs.
CallableAppends(T, s) ==
    s = "FnAppend" /\ SumLen(T, CPipelines) < MaxStages

CReplaceTop(f) == [cStack EXCEPT ![Len(cStack)] = f]

\* A caller invokes pipeline.transform(dataset).
CPipelineTransformCall(p, x) ==
    /\ program = "Composite_pipelining"
    /\ cStack = <<>>
    /\ p \in cConstructed
    /\ cStack' = <<Frame(p, x)>>
    /\ cCalls' = <<>>
    /\ cResult' = [NoResult EXCEPT !.status = "running", !.self = p, !.input = x,
                                   !.before = transformations,
                                   !.after = IF cLastOp.op = "append" THEN cLastOp
                                             ELSE IF cLastOp.op = "none"
                                                  THEN cResult.after
                                                  ELSE NoOp]
    /\ cLastOp' = NoOp
    /\ UNCHANGED <<program, transformations, cConstructed, evars, lvars, hvars, svars>>

\* The loop fetches the next stage, a leaf, and calls its transform.
CTransformLeaf ==
    /\ program = "Composite_pipelining"
    /\ cStack # <<>>
    /\ LoopHasNext(transformations[CTop.self], CTop.idx)
    /\ LET s == transformations[CTop.self][CTop.idx]
           r == LeafTransform(s, CTop.dataset)
       IN  /\ s \in CLeaves
           /\ cCalls' = Append(cCalls, s)
           /\ IF CallableAppends(transformations, s)
              THEN /\ transformations' =
                         [transformations EXCEPT
                             ![FnAppendTarget] = ListAppend(@, FnAppendStage)]
                   /\ cLastOp' = [op |-> "append", self |-> FnAppendTarget,
                                  args |-> <<StageArg(FnAppendStage)>>,
                                  before |-> transformations[FnAppendTarget],
                                  ret |-> AppendReturn(FnAppendTarget),
                                  exc |-> NoExc]
              ELSE UNCHANGED <<transformations, cLastOp>>
           /\ IF r.ok
              THEN /\ cStack' = CReplaceTop(
                         [CTop EXCEPT !.idx = @ + 1,
                                      !.dataset = AssignDataset(@, r.val),
                                      !.log = Append(@, CallRec(s, CTop.dataset, r.val))])
                   /\ UNCHANGED cResult
              ELSE /\ cStack' = Unwind(cStack)
                   /\ IF cStack' = <<>>
                      THEN cResult' = [cResult EXCEPT !.status = "raised",
                                                      !.exc = r.exc,
                                                      !.log = cStack[1].log]
                      ELSE UNCHANGED cResult
    /\ UNCHANGED <<program, cConstructed, evars, lvars, hvars, svars>>

\* The loop fetches the next stage, a nested Pipeline, and calls its transform.
CTransformNested ==
    /\ program = "Composite_pipelining"
    /\ cStack # <<>>
    /\ LoopHasNext(transformations[CTop.self], CTop.idx)
    /\ LET s == transformations[CTop.self][CTop.idx]
       IN  /\ s \in CPipelines
           /\ cCalls' = Append(cCalls, s)
           /\ cStack' = Append(CReplaceTop([CTop EXCEPT !.idx = @ + 1]),
                               Frame(s, CTop.dataset))
    /\ UNCHANGED <<program, transformations, cConstructed, cResult, cLastOp, evars, lvars, hvars, svars>>

\* The loop is exhausted: return dataset, to the calling frame or the caller.
CTransformReturn ==
    /\ program = "Composite_pipelining"
    /\ cStack # <<>>
    /\ ~LoopHasNext(transformations[CTop.self], CTop.idx)
    /\ IF Len(cStack) = 1
       THEN /\ cStack' = <<>>
            /\ cResult' = [cResult EXCEPT !.status = "returned",
                                          !.value = ReturnDataset(CTop.dataset),
                                          !.log = CTop.log]
       ELSE LET caller == cStack[Len(cStack) - 1]
                back == [caller EXCEPT
                           !.dataset = AssignDataset(@, ReturnDataset(CTop.dataset)),
                           !.log = Append(@, CallRec(CTop.self, CTop.input,
                                                     ReturnDataset(CTop.dataset)))]
            IN  /\ cStack' = Append(SubSeq(cStack, 1, Len(cStack) - 2), back)
                /\ UNCHANGED cResult
    /\ UNCHANGED <<program, transformations, cConstructed, cCalls, cLastOp, evars, lvars, hvars, svars>>

CInit ==
    /\ transformations = [p \in CPipelines |-> <<>>]
    /\ cConstructed = {}
    /\ cStack = <<>>
    /\ cCalls = <<>>
    /\ cResult = NoResult
    /\ cLastOp = NoOp

CNext ==
    \/ \E p \in CPipelines : \E args \in SeqUpTo(CtorArgValues, MaxCtorArgs) :
           CPipelineInit(p, args)
    \/ \E p \in CPipelines : \E t \in CStages : CPipelineAppend(p, t)
    \/ \E p \in CPipelines : \E x \in CInputs : CPipelineTransformCall(p, x)
    \/ CTransformLeaf
    \/ CTransformNested
    \/ CTransformReturn

(***************************************************************************)
(*                       ChainOfResponsibility.py                          *)
(*                                                                         *)
(* An exception is its class and, for a ModuleNotFoundError, its name.     *)
(* The collaborators (ILogger, IPluginLoader, IGracefulShutdown) are seen  *)
(* by the calls made to them: eEvents records each call and who made it    *)
(* (the position of the handler in the chain, 0 for the chain driver).     *)
(***************************************************************************)
HandlerClasses == {"ModuleNotFoundErrorHandler", "KeyboardInterruptHandler",
                   "NotImplementedErrorHandler", "UnexpectedExceptionHandler"}

\* good_main's chain
StandardChain == <<"ModuleNotFoundErrorHandler", "KeyboardInterruptHandler",
                   "NotImplementedErrorHandler", "UnexpectedExceptionHandler">>

Exception(t, name) == [type |-> t, name |-> name]

\* The exceptions service_logic may raise: a ModuleNotFoundError without and
\* with a module name, the two other classes the handlers know, one they do not.
Exceptions == {Exception("ModuleNotFoundError", "None"),
               Exception("ModuleNotFoundError", "plugin"),
               Exception("KeyboardInterrupt", "-"),
               Exception("NotImplementedError", "-"),
               Exception("ValueError", "-")}

\* The classes of Python's exception hierarchy an exception class derives from.
Bases(t) ==
    CASE t = "ModuleNotFoundError" -> {t, "ImportError", "Exception", "BaseException"}
      [] t = "NotImplementedError" -> {t, "RuntimeError", "Exception", "BaseException"}
      [] t = "KeyboardInterrupt"   -> {t, "BaseException"}
      [] OTHER                     -> {t, "Exception", "BaseException"}

IsInstance(ex, cls) == cls \in Bases(ex.type)

\* No call of handle_exception was made, no context exists.
NoContext == [exception |-> Exception("", "-"), is_handled |-> FALSE]

\* A bug: one context object is kept and used again by the next call, with
\* the is_handled the call before left in it.
ExceptionHandlingContextKept(ex) ==
    [exception |-> ex, is_handled |-> handling_context.is_handled]

\* ExceptionHandlingContext(exception): is_handled defaults to False
ExceptionHandlingContext(ex) == [exception |-> ex, is_handled |-> FALSE]

LogCall(by, text, ex, level) ==
    [target |-> "logger", by |-> by, text |-> text, about |-> ex, level |-> level]

LoadCall(by, ex) ==
    [target |-> "plugin_loader", by |-> by, text |-> ex.name, about |-> ex, level |-> ""]

ShutdownCall(by, ex) ==
    [target |-> "graceful_shutdown", by |-> by, text |-> "", about |-> ex, level |-> ""]

Handled(ctx, calls) == [ctx |-> ctx, calls |-> calls]

\* A bug: the missing module name is not checked, the plugin loader is asked.
ModuleNotFoundErrorHandler_handle_unchecked(ctx, by, loaded) ==
    IF ~IsInstance(ctx.exception, "ModuleNotFoundError") THEN Handled(ctx, <<>>)
    ELSE Handled([ctx EXCEPT !.is_handled = loaded],
                 <<LoadCall(by, ctx.exception)>>)

\* ModuleNotFoundErrorHandler.handle; `loaded` is what try_load_from_plugin gives
ModuleNotFoundErrorHandler_handle(ctx, by, loaded) ==
    IF ~IsInstance(ctx.exception, "ModuleNotFoundError") THEN Handled(ctx, <<>>)
    ELSE IF ctx.exception.name = "None"
         THEN Handled(ctx, <<LogCall(by, "ModuleNotFoundError without module name",
                                     ctx.exception, "ERROR")>>)
         ELSE Handled([ctx EXCEPT !.is_handled = loaded],
                      <<LoadCall(by, ctx.exception)>>)

\* KeyboardInterruptHandler.handle
KeyboardInterruptHandler_handle(ctx, by) ==
    IF ~IsInstance(ctx.exception, "KeyboardInterrupt") THEN Handled(ctx, <<>>)
    ELSE Handled([ctx EXCEPT !.is_handled = TRUE],
                 <<ShutdownCall(by, ctx.exception)>>)

\* A bug: the handler shuts down without the error log.
NotImplementedErrorHandler_handle_silent(ctx, by) ==
    IF ~IsInstance(ctx.exception, "NotImplementedError") THEN Handled(ctx, <<>>)
    ELSE Handled([ctx EXCEPT !.is_handled = TRUE],
                 <<ShutdownCall(by, ctx.exception)>>)

\* NotImplementedErrorHandler.handle
NotImplementedErrorHandler_handle(ctx, by) ==
    IF ~IsInstance(ctx.exception, "NotImplementedError") THEN Handled(ctx, <<>>)
    ELSE Handled([ctx EXCEPT !.is_handled = TRUE],
                 <<LogCall(by, "NotImplemented error", ctx.exception, "ERROR"),
                   ShutdownCall(by, ctx.exception)>>)

\* UnexpectedExceptionHandler.handle
UnexpectedExceptionHandler_handle(ctx, by) ==
    Handled([ctx EXCEPT !.is_handled = TRUE],
            <<LogCall(by, "Unexpected exception", ctx.exception, "ERROR"),
              ShutdownCall(by, ctx.exception)>>)

\* handler.handle(handling_context)
Handle(cls, ctx, by, loaded) ==
    CASE cls = "ModuleNotFoundErrorHandler" -> ModuleNotFoundErrorHandler_handle(ctx, by, loaded)
      [] cls = "KeyboardInterruptHandler"   -> KeyboardInterruptHandler_handle(ctx, by)
      [] cls = "NotImplementedErrorHandler" -> NotImplementedErrorHandler_handle(ctx, by)
      [] cls = "UnexpectedExceptionHandler" -> UnexpectedExceptionHandler_handle(ctx, by)

(***************************************************************************)
(* GodExceptionHandler: each _handle_* method gives did_handle and the     *)
(* calls it made to the collaborators (recorded with caller 0).            *)
(***************************************************************************)
GodResult(did_handle, calls) == [did_handle |-> did_handle, calls |-> calls]

\* GodExceptionHandler._handle_module_not_found_error
God_handle_module_not_found_error(ex, loaded) ==
    IF ex.name = "None"
    THEN GodResult(FALSE, <<LogCall(0, "ModuleNotFoundError without module name",
                                    ex, "ERROR")>>)
    ELSE GodResult(loaded, <<LoadCall(0, ex)>>)

\* GodExceptionHandler._handle_keyboard_interrupt
God_handle_keyboard_interrupt(ex) == GodResult(TRUE, <<ShutdownCall(0, ex)>>)

\* GodExceptionHandler._handle_not_implemented_error
God_handle_not_implemented_error(ex) ==
    GodResult(TRUE, <<LogCall(0, "NotImplemented error", ex, "ERROR"),
                      ShutdownCall(0, ex)>>)

\* GodExceptionHandler._handle_unexpected_exception
God_handle_unexpected_exception(ex) ==
    GodResult(TRUE, <<LogCall(0, "Unexpected exception", ex, "ERROR"),
                      ShutdownCall(0, ex)>>)

\* GodExceptionHandler.handle_exception: the calls it makes for exception ex
\* when try_load_from_plugin gives `loaded`.
GodExceptionHandler_handle_exception(ex, loaded) ==
    LET r == IF IsInstance(ex, "ModuleNotFoundError")
                THEN God_handle_module_not_found_error(ex, loaded)
             ELSE IF IsInstance(ex, "KeyboardInterrupt")
                THEN God_handle_keyboard_interrupt(ex)
             ELSE IF IsInstance(ex, "NotImplementedError")
                THEN God_handle_not_implemented_error(ex)
             ELSE God_handle_unexpected_exception(ex)
    IN  r.calls \o (IF ~r.did_handle THEN <<ShutdownCall(0, ex)>> ELSE <<>>)

\* A bug: the loop goes on after a handler has handled the exception.
BreaksNever(ctx) == FALSE

\* if handling_context.is_handled: break
Breaks(ctx) == ctx.is_handled

\* A bug: the loop's else clause is missing, an unhandled exception is dropped.
FallbackMissing(ex) == <<>>

\* else: self.__graceful_shutdown.shutdown()
Fallback(ex) == <<ShutdownCall(0, ex)>>

\* ChainExceptionHandler.handle_exception(exception): the context is created
EHandleException(ex) ==
    /\ program = "ChainOfResponsibility"
    /\ ePc \in {"idle", "done"}
    /\ handling_context' = ExceptionHandlingContext(ex)
    /\ ePrev' = IF ePc = "idle" THEN "none"
                ELSE IF handling_context.is_handled THEN "handled" ELSE "unhandled"
    /\ eIdx' = 1
    /\ eInvoked' = <<>>
    /\ eEvents' = <<>>
    /\ ePc' = "loop"
    /\ UNCHANGED <<program, exception_handlers, cvars, lvars, hvars, svars>>

\* One iteration of the loop: the next handler handles the context, and the
\* loop breaks when the context is handled.
EHandlerStep(loaded) ==
    /\ program = "ChainOfResponsibility"
    /\ ePc = "loop"
    /\ eIdx <= Len(exception_handlers)
    /\ LET h == Handle(exception_handlers[eIdx], handling_context, eIdx, loaded)
       IN  /\ handling_context' = h.ctx
           /\ eEvents' = eEvents \o h.calls
           /\ eInvoked' = Append(eInvoked, [idx |-> eIdx, handled |-> h.ctx.is_handled])
           /\ IF Breaks(h.ctx)
              THEN ePc' = "done" /\ UNCHANGED eIdx
              ELSE ePc' = "loop" /\ eIdx' = eIdx + 1
    /\ UNCHANGED <<program, exception_handlers, ePrev, cvars, lvars, hvars, svars>>

\* The loop ended without a break: the else clause shuts down.
EExhausted ==
    /\ program = "ChainOfResponsibility"
    /\ ePc = "loop"
    /\ eIdx > Len(exception_handlers)
    /\ eEvents' = eEvents \o Fallback(handling_context.exception)
    /\ ePc' = "done"
    /\ UNCHANGED <<program, exception_handlers, handling_context, eIdx, eInvoked,
                   ePrev, cvars, lvars, hvars, svars>>

\* ChainExceptionHandler(graceful_shutdown, *exception_handlers) has been
\* constructed with any handlers in any order; no exception was handled yet.
EInit ==
    /\ exception_handlers \in SeqUpTo(HandlerClasses, MaxHandlers)
    /\ handling_context = NoContext
    /\ ePc = "idle"
    /\ eIdx = 1
    /\ eInvoked = <<>>
    /\ eEvents = <<>>
    /\ ePrev = "none"

ENext ==
    \/ \E ex \in Exceptions : EHandleException(ex)
    \/ \E loaded \in BOOLEAN : EHandlerStep(loaded)
    \/ EExhausted

(***************************************************************************)
(*                        Decorator_pipelining.py                          *)
(*                                                                         *)
(* Three step objects, one of each subclass of DatasetTransformerStepBase. *)
(* The IdentityTransformer objects are told apart by who made them: a      *)
(* step's constructor, or a later caller.  A Dataset is the sequence of    *)
(* marks left on it, as for the aggregating pipeline.                      *)
(***************************************************************************)
LPipelines == {"Q1", "Q2"}

\* S1 is a ColumnsSelectorTransformer, S2 a FunctionTransformer, S3 an
\* AddTotalsRowTransformer.
LSteps == {"S1", "S2", "S3"}

\* IdentityTransformer(), made by Pipeline.append or by a caller
Identity == "Identity"

\* The IdentityTransformer() that the constructor of a step made for it: an
\* object no set_next_step call is ever given.
OwnIdentity == "OwnIdentity"

IdentityTransformers == {Identity, OwnIdentity}

\* The dataset a caller passes to transform.
LInputs == {<<"x">>}

\* A bug: the constructor stores the argument as it is, None if none is given.
StepBaseInitKeepsNone(next_arg) == next_arg

\* DatasetTransformerStepBase.__init__: next_step or IdentityTransformer()
StepBaseInit(next_arg) == IF next_arg = "None" THEN OwnIdentity ELSE next_arg

\* What a step passes to super().transform, i.e. to its next step.
StepLogic(s, dataset) ==
    CASE s = "S1" -> Ellipsis
      [] s = "S2" -> Append(dataset, "m")
      [] s = "S3" -> dataset

\* A bug: __next_step is an attribute of the class, shared by every step.
set_next_step_of_class(nexts, s, n) == [x \in DOMAIN nexts |-> n]

\* DatasetTransformerStepBase.set_next_step
set_next_step(nexts, s, n) == [nexts EXCEPT ![s] = n]

Wiring(nexts, list) == [nexts |-> nexts, list |-> list]

\* A bug: append does not link the pipeline's last step to the new one, which
\* stays unreachable from the first step.
LAppendUnlinked(w, transformer) ==
    Wiring(set_next_step(w.nexts, transformer, Identity), Append(w.list, transformer))

\* Pipeline.append's effect on the next references and on self.transformers
LAppend(w, transformer) ==
    LET n1 == set_next_step(w.nexts, transformer, Identity)
        n2 == IF Len(w.list) > 0
              THEN set_next_step(n1, w.list[Len(w.list)], transformer)
              ELSE n1
    IN  Wiring(n2, Append(w.list, transformer))

\* for transformer in transfomers: self.append(transformer)
RECURSIVE LAppendAll(_, _)
LAppendAll(w, args) ==
    IF args = <<>> THEN w
    ELSE LAppendAll(LAppend(w, Head(args)), Tail(args))

\* Pipeline.append has no return statement: the call gives None.
LAppendReturn(self) == "None"

LNoOp == [op |-> "none", self |-> "", args |-> <<>>, before |-> <<>>, ret |-> ""]

LNoRun == [status |-> "none", self |-> "", input |-> <<>>, cur |-> "",
           dataset |-> <<>>, ran |-> <<>>, exc |-> NoExc]

\* Pipeline.__init__(self, *transfomers)
LPipelineInit(q, args) ==
    /\ program = "Decorator_pipelining"
    /\ lRun.status # "running"
    /\ q \notin lConstructed
    /\ SumLen(transformers, LPipelines) + Len(args) <= MaxLinks
    /\ LET w == LAppendAll(Wiring(next_step, <<>>), args)
       IN  /\ next_step' = w.nexts
           /\ transformers' = [transformers EXCEPT ![q] = w.list]
    /\ lConstructed' = lConstructed \cup {q}
    /\ lLastOp' = [op |-> "new", self |-> q, args |-> args, before |-> <<>>, ret |-> q]
    /\ lRun' = LNoRun
    /\ UNCHANGED <<program, lRewires, cvars, evars, hvars, svars>>

\* Pipeline.append(self, transformer)
LPipelineAppend(q, t) ==
    /\ program = "Decorator_pipelining"
    /\ lRun.status # "running"
    /\ q \in lConstructed
    /\ SumLen(transformers, LPipelines) < MaxLinks
    /\ LET w == LAppend(Wiring(next_step, transformers[q]), t)
       IN  /\ next_step' = w.nexts
           /\ transformers' = [transformers EXCEPT ![q] = w.list]
    /\ lLastOp' = [op |-> "append", self |-> q, args |-> <<t>>,
                   before |-> transformers[q], ret |-> LAppendReturn(q)]
    /\ lRun' = LNoRun
    /\ UNCHANGED <<program, lConstructed, lRewires, cvars, evars, hvars, svars>>

\* A caller wires two steps itself: s.set_next_step(n), as main's option 2.
LSetNextStep(s, n) ==
    /\ program = "Decorator_pipelining"
    /\ lRun.status # "running"
    /\ lRewires < MaxRewires
    /\ next_step' = set_next_step(next_step, s, n)
    /\ lRewires' = lRewires + 1
    /\ lLastOp' = [op |-> "set_next_step", self |-> s, args |-> <<n>>,
                   before |-> <<>>, ret |-> "None"]
    /\ lRun' = LNoRun
    /\ UNCHANGED <<program, transformers, lConstructed, cvars, evars, hvars, svars>>

\* Pipeline.transform(dataset): return self.transformers[0].transform(dataset);
\* indexing an empty list raises IndexError.
LPipelineTransformCall(q, x) ==
    /\ program = "Decorator_pipelining"
    /\ lRun.status # "running"
    /\ q \in lConstructed
    /\ lRun' = IF transformers[q] = <<>>
               THEN [LNoRun EXCEPT !.status = "raised", !.self = q, !.input = x,
                                   !.exc = Exc("IndexError", q)]
               ELSE [LNoRun EXCEPT !.status = "running", !.self = q, !.input = x,
                                   !.cur = transformers[q][1], !.dataset = x]
    /\ lLastOp' = LNoOp
    /\ UNCHANGED <<program, next_step, transformers, lConstructed, lRewires, cvars, evars, hvars, svars>>

\* A caller invokes step.transform(dataset) on a step itself.
LStepTransformCall(s, x) ==
    /\ program = "Decorator_pipelining"
    /\ lRun.status # "running"
    /\ lRun' = [LNoRun EXCEPT !.status = "running", !.self = s, !.input = x,
                              !.cur = s, !.dataset = x]
    /\ lLastOp' = LNoOp
    /\ UNCHANGED <<program, next_step, transformers, lConstructed, lRewires, cvars, evars, hvars, svars>>

\* A step's transform: its own logic, then super().transform(...), which is
\* self.__next_step.transform(...).  A step met again on the same walk means
\* the delegation never ends: Python raises RecursionError.
LStepTransform ==
    /\ program = "Decorator_pipelining"
    /\ lRun.status = "running"
    /\ lRun.cur \in LSteps
    /\ lRun' = IF \E k \in 1..Len(lRun.ran) : lRun.ran[k] = lRun.cur
               THEN [lRun EXCEPT !.status = "raised",
                                 !.exc = Exc("RecursionError", lRun.cur)]
               ELSE [lRun EXCEPT !.dataset = StepLogic(lRun.cur, @),
                                 !.ran = Append(@, lRun.cur),
                                 !.cur = next_step[lRun.cur]]
    /\ UNCHANGED <<program, next_step, transformers, lConstructed, lRewires, lLastOp,
                   cvars, evars, hvars, svars>>

\* IdentityTransformer.transform: return dataset, up through every caller.
LIdentityTransform ==
    /\ program = "Decorator_pipelining"
    /\ lRun.status = "running"
    /\ lRun.cur \in IdentityTransformers
    /\ lRun' = [lRun EXCEPT !.status = "returned"]
    /\ UNCHANGED <<program, next_step, transformers, lConstructed, lRewires, lLastOp,
                   cvars, evars, hvars, svars>>

\* The steps have been constructed, innermost first as in main's option 1:
\* S3, then S2 with next_step S3 or none, then S1 with S2, S3 or none.
LInit ==
    /\ \E n1 \in {"None", "S2", "S3"} : \E n2 \in {"None", "S3"} :
          next_step = [s \in LSteps |->
                          CASE s = "S1" -> StepBaseInit(n1)
                            [] s = "S2" -> StepBaseInit(n2)
                            [] s = "S3" -> StepBaseInit("None")]
    /\ transformers = [q \in LPipelines |-> <<>>]
    /\ lConstructed = {}
    /\ lRewires = 0
    /\ lRun = LNoRun
    /\ lLastOp = LNoOp

LIdle ==
    /\ next_step = [s \in LSteps |-> StepBaseInit("None")]
    /\ transformers = [q \in LPipelines |-> <<>>]
    /\ lConstructed = {}
    /\ lRewires = 0
    /\ lRun = LNoRun
    /\ lLastOp = LNoOp

LNext ==
    \/ \E q \in LPipelines : \E args \in SeqUpTo(LSteps, MaxLinkArgs) : LPipelineInit(q, args)
    \/ \E q \in LPipelines : \E t \in LSteps : LPipelineAppend(q, t)
    \/ \E s \in LSteps : \E n \in LSteps \cup {Identity} : LSetNextStep(s, n)
    \/ \E q \in LPipelines : \E x \in LInputs : LPipelineTransformCall(q, x)
    \/ \E s \in LSteps : \E x \in LInputs : LStepTransformCall(s, x)
    \/ LStepTransform
    \/ LIdentityTransform

(***************************************************************************)
(*                           Decorator_Http.py                             *)
(*                                                                         *)
(* A handler object is the sequence of its decorators, outermost first,    *)
(* ending with the OkHttpRequestHandler they wrap.  open("log.txt", "a")   *)
(* and log_file.write may raise OSError; leaving the with block closes the *)
(* file and lets an exception pass.                                        *)
(***************************************************************************)
Decorators == {"ExceptionHandlingHttpRequestHandlerDecorator",
               "LoggerHttpRequestHandlerDecorator"}

\* main's handler
MainHandler == <<"ExceptionHandlingHttpRequestHandlerDecorator",
                 "LoggerHttpRequestHandlerDecorator", "OkHttpRequestHandler">>

HttpRequests == {"request1", "request2"}

\* HttpResponse(status_code), made by the handler at position `by`
HttpResponse(status_code, by) == [status_code |-> status_code, by |-> by]

NoResponse == HttpResponse(0, 0)

HNone == [status |-> "none", resp |-> NoResponse, exc |-> NoExc]

HReturn(resp) == [status |-> "returned", resp |-> resp, exc |-> NoExc]

HRaise(e) == [status |-> "raised", resp |-> NoResponse, exc |-> e]

\* What the file operations of one handle call may do.
IoOutcomes == {"ok", "open_fails", "write_fails"}

LogWrite(by, text) == [by |-> by, text |-> text]

\* OkHttpRequestHandler.handle
OkHttpRequestHandler_handle(d) == HReturn(HttpResponse(200, d))

\* A bug: the except clause raises the exception again.
ExceptionHandling_handle_reraise(d, inner) == inner

\* ExceptionHandlingHttpRequestHandlerDecorator.handle, given how the inner
\* handler's handle ended: try: return inner.handle(request)
\* except: return HttpResponse(500)
ExceptionHandling_handle(d, inner) ==
    IF inner.status = "returned" THEN HReturn(inner.resp)
    ELSE HReturn(HttpResponse(500, d))

\* A bug: the response is returned without the "end" write.
Logger_handle_after_silent(d, inner, io) == [out |-> inner, writes |-> <<>>]

\* A bug: "end" is written in a finally clause, also when the inner handler
\* raised.
Logger_handle_after_finally(d, inner, io) ==
    IF io = "write_fails"
    THEN [out |-> HRaise(Exc("OSError", "write")), writes |-> <<>>]
    ELSE [out |-> IF inner.status = "raised" THEN inner ELSE HReturn(inner.resp),
          writes |-> <<LogWrite(d, "Http request handler end")>>]

\* LoggerHttpRequestHandlerDecorator.handle after the inner handler's handle
\* ended: an exception passes through the with block; otherwise "end" is
\* written and the response returned.
Logger_handle_after(d, inner, io) ==
    IF inner.status = "raised" THEN [out |-> inner, writes |-> <<>>]
    ELSE IF io = "write_fails"
         THEN [out |-> HRaise(Exc("OSError", "write")), writes |-> <<>>]
         ELSE [out |-> HReturn(inner.resp),
               writes |-> <<LogWrite(d, "Http request handler end")>>]

(***************************************************************************)
(* The handlers built by inheritance.  Their handle is one call on one     *)
(* object, so it is given as what it returns and writes for the outcomes   *)
(* io1 (open and the "begin" write) and io2 (the "end" write) of its file  *)
(* operations; its writes and responses are recorded as made by 0.         *)
(***************************************************************************)
\* LoggingOkHttpRequestHandler.handle; super().handle is
\* OkHttpRequestHandler.handle
LoggingOkHttpRequestHandler_handle(io1, io2) ==
    IF io1 # "ok"
    THEN [out |-> HRaise(Exc("OSError", IF io1 = "open_fails" THEN "open" ELSE "write")),
          writes |-> <<>>]
    ELSE LET begin == <<LogWrite(0, "Http request handler begin")>>
             response == OkHttpRequestHandler_handle(0)
         IN  IF response.status = "raised"
             THEN [out |-> response, writes |-> begin]
             ELSE IF io2 = "write_fails"
                  THEN [out |-> HRaise(Exc("OSError", "write")), writes |-> begin]
                  ELSE [out |-> HReturn(response.resp),
                        writes |-> Append(begin, LogWrite(0, "Http request handler end"))]

\* ExceptionHandlingLoggingOkHttpRequestHandler.handle; super().handle is
\* LoggingOkHttpRequestHandler.handle
ExceptionHandlingLoggingOkHttpRequestHandler_handle(io1, io2) ==
    LET inner == LoggingOkHttpRequestHandler_handle(io1, io2)
    IN  [out |-> IF inner.out.status = "returned" THEN HReturn(inner.out.resp)
                 ELSE HReturn(HttpResponse(500, 0)),
         writes |-> inner.writes]

HSetOutcome(d, out) == [hOutcome EXCEPT ![d] = out]

\* A caller invokes my_handler.handle(request).
HHandleCall(request) ==
    /\ program = "Decorator_Http"
    /\ hPhase \in {"idle", "done"}
    /\ hRequest' = request
    /\ hDepth' = 1
    /\ hPhase' = "enter"
    /\ hOutcome' = [d \in DOMAIN hOutcome |-> HNone]
    /\ hLog' = <<>>
    /\ hCalls' = <<1>>
    /\ hIo' = <<>>
    /\ UNCHANGED <<program, hHandler, cvars, evars, lvars, svars>>

\* The call comes back to the handler (or caller) that made it.
HBack == /\ hDepth' = hDepth - 1
         /\ hPhase' = IF hDepth = 1 THEN "done" ELSE "resume"
         /\ UNCHANGED hCalls

\* The call goes on into the inner handler.
HInto == /\ hDepth' = hDepth + 1
         /\ hPhase' = "enter"
         /\ hCalls' = Append(hCalls, hDepth + 1)

\* OkHttpRequestHandler.handle runs.
HOkEnter ==
    /\ program = "Decorator_Http"
    /\ hPhase = "enter"
    /\ hHandler[hDepth] = "OkHttpRequestHandler"
    /\ hOutcome' = HSetOutcome(hDepth, OkHttpRequestHandler_handle(hDepth))
    /\ HBack
    /\ UNCHANGED <<program, hHandler, hRequest, hLog, hIo, cvars, evars, lvars, svars>>

\* ExceptionHandlingHttpRequestHandlerDecorator.handle enters its try block
\* and calls the inner handler.
HExceptionHandlingEnter ==
    /\ program = "Decorator_Http"
    /\ hPhase = "enter"
    /\ hHandler[hDepth] = "ExceptionHandlingHttpRequestHandlerDecorator"
    /\ HInto
    /\ UNCHANGED <<program, hHandler, hRequest, hOutcome, hLog, hIo, cvars, evars, lvars, svars>>

\* The inner call is over: return its response, or HttpResponse(500).
HExceptionHandlingResume ==
    /\ program = "Decorator_Http"
    /\ hPhase = "resume"
    /\ hHandler[hDepth] = "ExceptionHandlingHttpRequestHandlerDecorator"
    /\ hOutcome' = HSetOutcome(hDepth, ExceptionHandling_handle(hDepth, hOutcome[hDepth + 1]))
    /\ HBack
    /\ UNCHANGED <<program, hHandler, hRequest, hLog, hIo, cvars, evars, lvars, svars>>

\* LoggerHttpRequestHandlerDecorator.handle opens log.txt, writes "begin" and
\* calls the inner handler; a failing open or write raises.
HLoggerEnter(io) ==
    /\ program = "Decorator_Http"
    /\ hPhase = "enter"
    /\ hHandler[hDepth] = "LoggerHttpRequestHandlerDecorator"
    /\ hIo' = Append(hIo, io)
    /\ IF io = "ok"
       THEN /\ hLog' = Append(hLog, LogWrite(hDepth, "Http request handler begin"))
            /\ HInto
            /\ UNCHANGED hOutcome
       ELSE /\ hOutcome' = HSetOutcome(hDepth,
                  HRaise(Exc("OSError", IF io = "open_fails" THEN "open" ELSE "write")))
            /\ HBack
            /\ UNCHANGED hLog
    /\ UNCHANGED <<program, hHandler, hRequest, cvars, evars, lvars, svars>>

\* The inner call is over: write "end" and return the response, or let the
\* exception pass.
HLoggerResume(io) ==
    /\ program = "Decorator_Http"
    /\ hPhase = "resume"
    /\ hHandler[hDepth] = "LoggerHttpRequestHandlerDecorator"
    /\ io # "open_fails"
    /\ LET after == Logger_handle_after(hDepth, hOutcome[hDepth + 1], io)
       IN  /\ hOutcome' = HSetOutcome(hDepth, after.out)
           /\ hLog' = hLog \o after.writes
    /\ hIo' = IF hOutcome[hDepth + 1].status = "raised" THEN hIo ELSE Append(hIo, io)
    /\ HBack
    /\ UNCHANGED <<program, hHandler, hRequest, cvars, evars, lvars, svars>>

\* The handler objects: up to MaxDecorators decorators, in any order, around
\* an OkHttpRequestHandler.
HHandlers == {ds \o <<"OkHttpRequestHandler">> : ds \in SeqUpTo(Decorators, MaxDecorators)}

HInit ==
    /\ hHandler \in HHandlers
    /\ hRequest = ""
    /\ hDepth = 0
    /\ hPhase = "idle"
    /\ hOutcome = [d \in 1..Len(hHandler) |-> HNone]
    /\ hLog = <<>>
    /\ hCalls = <<>>
    /\ hIo = <<>>

HIdle ==
    /\ hHandler = <<"OkHttpRequestHandler">>
    /\ hRequest = ""
    /\ hDepth = 0
    /\ hPhase = "idle"
    /\ hOutcome = [d \in 1..1 |-> HNone]
    /\ hLog = <<>>
    /\ hCalls = <<>>
    /\ hIo = <<>>

HNext ==
    \/ \E request \in HttpRequests : HHandleCall(request)
    \/ HOkEnter
    \/ HExceptionHandlingEnter
    \/ HExceptionHandlingResume
    \/ \E io \in IoOutcomes : HLoggerEnter(io)
    \/ \E io \in IoOutcomes : HLoggerResume(io)

(***************************************************************************)
(*                       Composite_side_effects.py                         *)
(*                                                                         *)
(* One HotColdLogger whose hot path and cold path loggers are each a leaf  *)
(* logger or a ForEachLogger of leaf loggers.  A logger object is named by *)
(* its place: the HotColdLogger itself, the logger of a path (idx 0), or   *)
(* the idx-th logger of the ForEachLogger of a path.  The text             *)
(* f"[{log_level.name}] {message}" is the pair of level name and message.  *)
(***************************************************************************)
\* LogLevel(IntEnum)
LogLevels == {"DEBUG", "INFO", "WARN", "ERROR"}

LogLevelValue(log_level) ==
    CASE log_level = "DEBUG" -> 1
      [] log_level = "INFO"  -> 2
      [] log_level = "WARN"  -> 3
      [] log_level = "ERROR" -> 4

\* The messages of good_main.
SMessages == {"First message", "second message"}

LeafLoggers == {"StdoutLogger", "FileLogger", "DatabaseLogger"}

LeafLogger(cls) == [cls |-> cls, loggers |-> <<>>]

\* ForEachLogger(*loggers): self.__loggers = loggers
ForEachLogger(loggers) == [cls |-> "ForEachLogger", loggers |-> loggers]

\* HotColdLogger(hot_path_logger, cold_path_logger)
HotColdLogger(hot_path_logger, cold_path_logger) ==
    [hot |-> hot_path_logger, cold |-> cold_path_logger]

\* The loggers a caller gives to HotColdLogger.
PathLoggers ==
    {LeafLogger(cls) : cls \in LeafLoggers}
       \cup {ForEachLogger(loggers) : loggers \in SeqUpTo(LeafLoggers, MaxLoggers)}

\* good_main's logger
GoodMainLogger ==
    HotColdLogger(ForEachLogger(<<"StdoutLogger", "FileLogger">>),
                  ForEachLogger(<<"StdoutLogger", "FileLogger", "DatabaseLogger">>))

SObj(path, idx) == [path |-> path, idx |-> idx]

SRoot == SObj("root", 0)

\* The class of a logger object.
SClass(obj) ==
    IF obj.path = "root" THEN "HotColdLogger"
    ELSE IF obj.idx = 0 THEN sLogger[obj.path].cls
    ELSE sLogger[obj.path].loggers[obj.idx]

\* f"[{log_level.name}] {message}"
Format(message, log_level) == <<log_level, message>>

\* A bug: WARN goes to the cold path (> in place of >=).
HotPathAboveWarn(log_level) == LogLevelValue(log_level) > LogLevelValue("WARN")

\* if log_level.value >= LogLevel.WARN.value
HotPath(log_level) == LogLevelValue(log_level) >= LogLevelValue("WARN")

\* An active call obj.log(message, log_level); idx is the place of a
\* ForEachLogger's loop, or whether a HotColdLogger has made its call.
SFrame(obj, message, log_level) ==
    [obj |-> obj, idx |-> 1, message |-> message, level |-> log_level]

SLogInvoked(obj, message, log_level) ==
    [target |-> obj, message |-> message, level |-> log_level]

SWritten(obj, sink, text) == [by |-> obj, sink |-> sink, text |-> text]

SNoCall == [status |-> "none", message |-> "", level |-> "", exc |-> NoExc]

STop == sStack[Len(sStack)]

\* The innermost call invokes obj.log with the arguments it was given itself.
SInvoke(obj) ==
    /\ sStack' = Append([sStack EXCEPT ![Len(sStack)].idx = @ + 1],
                        SFrame(obj, STop.message, STop.level))
    /\ sInvoked' = Append(sInvoked, SLogInvoked(obj, STop.message, STop.level))

\* The innermost call returns, to its caller's frame or to the caller.
SReturn ==
    /\ sStack' = SubSeq(sStack, 1, Len(sStack) - 1)
    /\ sCall' = IF Len(sStack) = 1 THEN [sCall EXCEPT !.status = "returned"] ELSE sCall

\* A caller invokes logger.log(message, log_level) on the HotColdLogger.
SLogCall(message, log_level) ==
    /\ program = "Composite_side_effects"
    /\ sStack = <<>>
    /\ sStack' = <<SFrame(SRoot, message, log_level)>>
    /\ sCall' = [SNoCall EXCEPT !.status = "running", !.message = message,
                                !.level = log_level]
    /\ sInvoked' = <<SLogInvoked(SRoot, message, log_level)>>
    /\ sOut' = <<>>
    /\ UNCHANGED <<program, sLogger, cvars, evars, lvars, hvars>>

\* HotColdLogger.log picks the hot or the cold path logger and calls its log.
SHotColdLog ==
    /\ program = "Composite_side_effects"
    /\ sStack # <<>>
    /\ SClass(STop.obj) = "HotColdLogger"
    /\ STop.idx = 1
    /\ SInvoke(SObj(IF HotPath(STop.level) THEN "hot" ELSE "cold", 0))
    /\ UNCHANGED <<program, sLogger, sCall, sOut, cvars, evars, lvars, hvars>>

\* The path logger's log is over: HotColdLogger.log returns.
SHotColdReturn ==
    /\ program = "Composite_side_effects"
    /\ sStack # <<>>
    /\ SClass(STop.obj) = "HotColdLogger"
    /\ STop.idx = 2
    /\ SReturn
    /\ UNCHANGED <<program, sLogger, sInvoked, sOut, cvars, evars, lvars, hvars>>

\* ForEachLogger.log: the loop fetches the next logger and calls its log.
SForEachLog ==
    /\ program = "Composite_side_effects"
    /\ sStack # <<>>
    /\ SClass(STop.obj) = "ForEachLogger"
    /\ STop.idx <= Len(sLogger[STop.obj.path].loggers)
    /\ SInvoke(SObj(STop.obj.path, STop.idx))
    /\ UNCHANGED <<program, sLogger, sCall, sOut, cvars, evars, lvars, hvars>>

\* ForEachLogger.log: the loop is exhausted, log returns.
SForEachReturn ==
    /\ program = "Composite_side_effects"
    /\ sStack # <<>>
    /\ SClass(STop.obj) = "ForEachLogger"
    /\ STop.idx > Len(sLogger[STop.obj.path].loggers)
    /\ SReturn
    /\ UNCHANGED <<program, sLogger, sInvoked, sOut, cvars, evars, lvars, hvars>>

\* StdoutLogger.log prints the formatted message.
SStdoutLog ==
    /\ program = "Composite_side_effects"
    /\ sStack # <<>>
    /\ SClass(STop.obj) = "StdoutLogger"
    /\ sOut' = Append(sOut, SWritten(STop.obj, "stdout", Format(STop.message, STop.level)))
    /\ SReturn
    /\ UNCHANGED <<program, sLogger, sInvoked, cvars, evars, lvars, hvars>>

\* FileLogger.log opens log.txt and writes the formatted message; a failing
\* open or write raises, and no log of the file catches an exception.
SFileLog(io) ==
    /\ program = "Composite_side_effects"
    /\ sStack # <<>>
    /\ SClass(STop.obj) = "FileLogger"
    /\ IF io = "ok"
       THEN /\ sOut' = Append(sOut, SWritten(STop.obj, "log.txt",
                                             Format(STop.message, STop.level)))
            /\ SReturn
       ELSE /\ sStack' = <<>>
            /\ sCall' = [sCall EXCEPT
                            !.status = "raised",
                            !.exc = Exc("OSError", IF io = "open_fails" THEN "open"
                                                   ELSE "write")]
            /\ UNCHANGED sOut
    /\ UNCHANGED <<program, sLogger, sInvoked, cvars, evars, lvars, hvars>>

\* DatabaseLogger.log: pass
SDatabaseLog ==
    /\ program = "Composite_side_effects"
    /\ sStack # <<>>
    /\ SClass(STop.obj) = "DatabaseLogger"
    /\ SReturn
    /\ UNCHANGED <<program, sLogger, sInvoked, sOut, cvars, evars, lvars, hvars>>

\* A HotColdLogger has been constructed over any two path loggers.
SInit ==
    /\ sLogger \in {HotColdLogger(h, c) : h \in PathLoggers, c \in PathLoggers}
    /\ sStack = <<>>
    /\ sCall = SNoCall
    /\ sInvoked = <<>>
    /\ sOut = <<>>

SIdle ==
    /\ sLogger = GoodMainLogger
    /\ sStack = <<>>
    /\ sCall = SNoCall
    /\ sInvoked = <<>>
    /\ sOut = <<>>

SNext ==
    \/ \E message \in SMessages : \E log_level \in LogLevels : SLogCall(message, log_level)
    \/ SHotColdLog
    \/ SHotColdReturn
    \/ SForEachLog
    \/ SForEachReturn
    \/ SStdoutLog
    \/ \E io \in IoOutcomes : SFileLog(io)
    \/ SDatabaseLog

Programs == {"Composite_pipelining", "ChainOfResponsibility", "Decorator_pipelining",
             "Decorator_Http", "Composite_side_effects"}

\* The state of a program that the behaviour does not run stays as constructed.
EIdle ==
    /\ exception_handlers = <<>>
    /\ handling_context = NoContext
    /\ ePc = "idle"
    /\ eIdx = 1
    /\ eInvoked = <<>>
    /\ eEvents = <<>>
    /\ ePrev = "none"

Init ==
    /\ program \in Programs
    /\ CInit
    /\ IF program = "ChainOfResponsibility" THEN EInit ELSE EIdle
    /\ IF program = "Decorator_pipelining" THEN LInit ELSE LIdle
    /\ IF program = "Decorator_Http" THEN HInit ELSE HIdle
    /\ IF program = "Composite_side_effects" THEN SInit ELSE SIdle

Next ==
    \/ CNext
    \/ ENext
    \/ LNext
    \/ HNext
    \/ SNext

Spec == Init /\ [][Next]_vars

InitComposite == Init /\ program = "Composite_pipelining"

SpecComposite == InitComposite /\ [][CNext]_vars

InitChain == Init /\ program = "ChainOfResponsibility"

SpecChain == InitChain /\ [][ENext]_vars

InitLinked == Init /\ program = "Decorator_pipelining"

SpecLinked == InitLinked /\ [][LNext]_vars

InitHttp == Init /\ program = "Decorator_Http"

SpecHttp == InitHttp /\ [][HNext]_vars

InitSideEffects == Init /\ program = "Composite_side_effects"

SpecSideEffects == InitSideEffects /\ [][SNext]_vars

(***************************************************************************)
(*                 Claims on Composite_pipelining.py                       *)
(***************************************************************************)
RECURSIVE CApply(_, _, _), CFoldList(_, _, _), CTrace(_, _)

\* s(v): what stage s gives for v, a nested pipeline being the fold of its stages.
CApply(T, s, r) ==
    IF ~r.ok THEN r
    ELSE IF s \in CPipelines THEN CFoldList(T, T[s], r)
         ELSE LeafTransform(s, r.val)

\* sn(...s2(s1(v))...)
CFoldList(T, list, r) ==
    IF list = <<>> THEN r
    ELSE CFoldList(T, Tail(list), CApply(T, Head(list), r))

\* The stages a fold of `list` calls, in order, nested ones after their pipeline.
CTrace(T, list) ==
    IF list = <<>> THEN <<>>
    ELSE LET s == Head(list)
         IN  <<s>> \o (IF s \in CPipelines THEN CTrace(T, T[s]) ELSE <<>>)
                 \o CTrace(T, Tail(list))

\* No stage list has changed since the transform call started.
CListsAsAtCall == cResult.before = transformations

\* The n calls logged by a call of pipeline p on x are the first n stages of p,
\* in order, the first given x and each other the result of the one before
\* (what a stage gives being read off the stage lists, if they have not changed
\* during the call).
CThreaded(p, x, log) ==
    /\ Len(log) <= Len(transformations[p])
    /\ \A k \in 1..Len(log) :
          /\ log[k].stage = transformations[p][k]
          /\ log[k].arg = (IF k = 1 THEN x ELSE log[k - 1].ret)
          /\ CListsAsAtCall =>
                Returned(log[k].ret) =
                    CApply(transformations, log[k].stage, Returned(log[k].arg))

\* C1: a call of Pipeline.transform(x) that returns has invoked every stage of
\* the pipeline exactly once, in insertion order, each on the result of the one
\* before, and returns sn(...s2(s1(x))...); so does every nested call, which
\* while it runs has done so for the stages up to its iterator.
C1_TransformFoldsEveryStageInOrder ==
    /\ \A d \in 1..Len(cStack) :
          LET f == cStack[d]
          IN  /\ CThreaded(f.self, f.input, f.log)
              /\ f.dataset = (IF f.log = <<>> THEN f.input ELSE f.log[Len(f.log)].ret)
              /\ Len(f.log) = (IF d = Len(cStack) THEN f.idx - 1 ELSE f.idx - 2)
    /\ cResult.status = "returned" =>
          /\ Len(cResult.log) = Len(transformations[cResult.self])
          /\ CThreaded(cResult.self, cResult.input, cResult.log)
          /\ cResult.value = (IF cResult.log = <<>> THEN cResult.input
                               ELSE cResult.log[Len(cResult.log)].ret)
          /\ CListsAsAtCall =>
                /\ Returned(cResult.value) =
                      CFoldList(transformations, transformations[cResult.self],
                                Returned(cResult.input))
                /\ cCalls = CTrace(transformations, transformations[cResult.self])

\* C1 witness: a returned call over at least two stages, one a nested pipeline
\* that holds a stage, whose result differs from the input.
C1_Witness ==
    /\ cResult.status = "returned"
    /\ Len(cResult.log) >= 2
    /\ \E k \in 1..Len(cResult.log) :
          /\ cResult.log[k].stage \in CPipelines
          /\ transformations[cResult.log[k].stage] # <<>>
    /\ cResult.value # cResult.input

\* C2: Pipeline(s1, ..., sn) with stages as arguments succeeds and the new
\* pipeline holds exactly s1..sn in that order.
C2_ConstructorKeepsInitialStages ==
    (/\ cLastOp.op = "new"
     /\ \A i \in 1..Len(cLastOp.args) : cLastOp.args[i].kind = "stage")
    => /\ cLastOp.exc = NoExc
       /\ cLastOp.self \in cConstructed
       /\ transformations[cLastOp.self] =
             [i \in 1..Len(cLastOp.args) |-> cLastOp.args[i].ref]

\* C7: append(stage) leaves the earlier stages at their positions, puts the
\* stage after them, and returns the pipeline it was called on.
C7_AppendAddsLastAndReturnsSelf ==
    cLastOp.op = "append" =>
       LET now == transformations[cLastOp.self]
       IN  /\ Len(now) = Len(cLastOp.before) + 1
           /\ \A i \in 1..Len(cLastOp.before) : now[i] = cLastOp.before[i]
           /\ now[Len(now)] = cLastOp.args[1].ref
           /\ cLastOp.ret = cLastOp.self

\* C7 witness: an append to a pipeline that already held two stages.
C7_Witness ==
    /\ cLastOp.op = "append"
    /\ Len(cLastOp.before) >= 2
    /\ cLastOp.ret = cLastOp.self

\* C9: when a stage raises, the call of Pipeline.transform ends at once with
\* that very exception: no frame stays active, the raising stage is the last
\* one invoked, and a call that is still running has invoked no raising stage.
C9_StageFailurePropagates ==
    /\ cResult.status = "raised" =>
          /\ cStack = <<>>
          /\ cCalls # <<>>
          /\ LeafTransform(cCalls[Len(cCalls)], <<>>).ok = FALSE
          /\ cResult.exc = Exc("StageError", cCalls[Len(cCalls)])
          /\ \A k \in 1..(Len(cCalls) - 1) :
                cCalls[k] \in CPipelines \/ LeafTransform(cCalls[k], <<>>).ok
          /\ Len(cResult.log) < Len(transformations[cResult.self])
    /\ cResult.status \in {"running", "returned"} =>
          \A k \in 1..Len(cCalls) :
             cCalls[k] \in CPipelines \/ LeafTransform(cCalls[k], <<>>).ok

\* C9 witness: a stage of a nested pipeline raised, and the outer pipeline
\* holds a stage after the nested one, which was not invoked.
C9_Witness ==
    /\ cResult.status = "raised"
    /\ Len(cResult.log) + 1 < Len(transformations[cResult.self])
    /\ transformations[cResult.self][Len(cResult.log) + 1] \in CPipelines

(***************************************************************************)
(*                 Claims on ChainOfResponsibility.py                      *)
(***************************************************************************)
\* The calls of eEvents made to `target` by `by`.
ECallsTo(target, by) ==
    SelectSeq(eEvents, LAMBDA c : c.target = target /\ c.by = by)

\* C3: handle_exception invokes the handlers in their configured order and
\* once a handler returns with is_handled = true the call is over: no later
\* handler is invoked.
C3_ShortCircuitAfterHandled ==
    /\ Len(eInvoked) <= Len(exception_handlers)
    /\ \A k \in 1..Len(eInvoked) :
          /\ eInvoked[k].idx = k
          /\ eInvoked[k].handled => (k = Len(eInvoked) /\ ePc = "done")
    /\ \A c \in 1..Len(eEvents) : eEvents[c].by <= Len(eInvoked)
    /\ handling_context.is_handled =>
          (eInvoked # <<>> /\ eInvoked[Len(eInvoked)].handled)

\* C3 witness: a chain [A, B, C] where A declined, B handled, and the call is
\* over with C never invoked.
C3_Witness ==
    /\ ePc = "done"
    /\ Len(exception_handlers) = 3
    /\ Len(eInvoked) = 2
    /\ ~eInvoked[1].handled
    /\ eInvoked[2].handled
    /\ exception_handlers[3] = "UnexpectedExceptionHandler"

\* C4: when handle_exception is over and no handler has left is_handled =
\* true, every handler was invoked and the driver's fallback shutdown was
\* called exactly once, as the last call; while the loop runs, and when a
\* handler handled the exception, the driver calls no shutdown.
C4_FallbackOnceOnExhaustion ==
    /\ (ePc = "done" /\ ~handling_context.is_handled) =>
          /\ Len(eInvoked) = Len(exception_handlers)
          /\ Len(ECallsTo("graceful_shutdown", 0)) = 1
          /\ eEvents[Len(eEvents)] = ShutdownCall(0, handling_context.exception)
          /\ Len(SelectSeq(eEvents, LAMBDA c : c.target = "graceful_shutdown")) = 1
    /\ (ePc = "loop" \/ handling_context.is_handled) =>
          ECallsTo("graceful_shutdown", 0) = <<>>

\* C4 witness: a chain of two handlers or more, none of which handled the
\* exception though one of them acted on it, ended by the fallback.
C4_Witness ==
    /\ ePc = "done"
    /\ ~handling_context.is_handled
    /\ Len(exception_handlers) >= 2
    /\ Len(eEvents) >= 2

\* C8: the standard chain given a ModuleNotFoundError without a name ends with
\* all four handlers invoked, only the last one handling; the calls made are
\* the first handler's error log, then the last handler's "Unexpected" log and
\* its shutdown: no plugin loader call, no fallback shutdown by the driver.
C8_ModuleNotFoundWithoutName ==
    (/\ ePc = "done"
     /\ exception_handlers = StandardChain
     /\ handling_context.exception = Exception("ModuleNotFoundError", "None"))
    => LET ex == handling_context.exception
       IN  /\ handling_context.is_handled
           /\ eInvoked = <<[idx |-> 1, handled |-> FALSE], [idx |-> 2, handled |-> FALSE],
                           [idx |-> 3, handled |-> FALSE], [idx |-> 4, handled |-> TRUE]>>
           /\ eEvents = <<LogCall(1, "ModuleNotFoundError without module name", ex, "ERROR"),
                          LogCall(4, "Unexpected exception", ex, "ERROR"),
                          ShutdownCall(4, ex)>>
           /\ ECallsTo("plugin_loader", 1) = <<>>
           /\ ECallsTo("graceful_shutdown", 0) = <<>>
           /\ Len(SelectSeq(eEvents, LAMBDA c : c.target = "logger"
                                                /\ c.text = "Unexpected exception")) = 1

\* C8 witness: the standard chain has finished handling such an exception.
C8_Witness ==
    /\ ePc = "done"
    /\ exception_handlers = StandardChain
    /\ handling_context.exception = Exception("ModuleNotFoundError", "None")
    /\ Len(eInvoked) = 4

(***************************************************************************)
(*                  Claims on Decorator_pipelining.py                      *)
(***************************************************************************)
\* Following the next references from n reaches an IdentityTransformer within
\* `fuel` steps.
RECURSIVE ReachesIdentity(_, _)
ReachesIdentity(n, fuel) ==
    \/ n \in IdentityTransformers
    \/ fuel > 0 /\ ReachesIdentity(next_step[n], fuel - 1)

\* The chain of pipeline q is terminal-closed.
TerminalClosed(q) ==
    transformers[q] # <<>> => ReachesIdentity(transformers[q][1], Cardinality(LSteps))

\* C5: after every append, in a sequence of Pipeline(...) and append calls
\* alone, the pipeline's chain is terminal-closed and the next of the step
\* just appended is an IdentityTransformer.
C5_TerminalClosedAfterAppend ==
    (lLastOp.op = "append" /\ lRewires = 0) =>
       /\ TerminalClosed(lLastOp.self)
       /\ next_step[lLastOp.args[1]] = Identity

\* C6: transform(x) of a pipeline built by Pipeline(...) and append calls alone
\* never fails with a missing-stage (IndexError) or undefined-next
\* (AttributeError) error, whatever the number of its stages.
C6_TransformNeverMissesAStage ==
    (lRun.status = "raised" /\ lRun.self \in LPipelines /\ lRewires = 0) =>
       lRun.exc.type \notin {"IndexError", "AttributeError"}

(***************************************************************************)
(*                     Claims on Decorator_Http.py                         *)
(***************************************************************************)
\* C10: a handle call of an ExceptionHandlingHttpRequestHandlerDecorator never
\* ends by raising: it returns the very response of its inner handler when
\* that returned, and a response of status 500 when that raised; a call of the
\* logging decorator, which has no such protection, ends by raising the very
\* exception its inner handler raised.
C10_ExceptionHandlingNeverRaises ==
    \A d \in 1..(Len(hHandler) - 1) :
       hOutcome[d].status # "none" =>
          /\ hHandler[d] = "ExceptionHandlingHttpRequestHandlerDecorator" =>
                /\ hOutcome[d].status = "returned"
                /\ hOutcome[d + 1].status = "returned" =>
                      hOutcome[d].resp = hOutcome[d + 1].resp
                /\ hOutcome[d + 1].status = "raised" =>
                      hOutcome[d].resp = HttpResponse(500, d)
                /\ hOutcome[d + 1].status # "none"
          /\ (/\ hHandler[d] = "LoggerHttpRequestHandlerDecorator"
              /\ hOutcome[d + 1].status = "raised") =>
                hOutcome[d] = hOutcome[d + 1]

\* C10 witness: main's handler has answered 500 to a request because the
\* logging decorator inside it raised.
C10_Witness ==
    /\ hPhase = "done"
    /\ hHandler = MainHandler
    /\ hOutcome[2].status = "raised"
    /\ hOutcome[1] = HReturn(HttpResponse(500, 1))

\* C12: transform(x) of a pipeline that holds no stage invokes nothing and
\* returns x itself, for a call by a caller and for a call as a nested stage.
C12_EmptyPipelineIsIdentity ==
    /\ (cResult.status = "returned" /\ transformations[cResult.self] = <<>>) =>
          /\ cResult.value = cResult.input
          /\ cCalls = <<>>
    /\ \A d \in 1..Len(cStack) : \A k \in 1..Len(cStack[d].log) :
          LET c == cStack[d].log[k]
          IN  (c.stage \in CPipelines /\ transformations[c.stage] = <<>>) =>
                 c.ret = c.arg

\* C12 witness: a caller's call of a pipeline without stages has returned.
C12_Witness ==
    /\ cResult.status = "returned"
    /\ cResult.self \in cConstructed
    /\ transformations[cResult.self] = <<>>
    /\ cResult.input \in CInputs

\* C13: an append affects only transform calls that start after it: a call
\* that is running while a stage is appended (by one of its own stages) invokes
\* just the stages its pipelines held when it started, so a returned call has
\* invoked exactly those.
C13_AppendLeavesRunningCallsAlone ==
    /\ \A d \in 1..Len(cStack) :
          Len(cStack[d].log) <= Len(cResult.before[cStack[d].self])
    /\ cResult.status = "returned" =>
          /\ Len(cResult.log) = Len(cResult.before[cResult.self])
          /\ cCalls = CTrace(cResult.before, cResult.before[cResult.self])

\* C14: when Inner.append(s) was the last change before a call of
\* Outer.transform(x) and Inner is a stage of Outer, the call runs, at each
\* place of Inner in Outer, the stages Inner held before the append and then
\* s, and Inner's result there is s applied to the fold of the earlier stages.
C14_NestedAppendSeenByOuter ==
    (cResult.status = "returned" /\ CListsAsAtCall /\ cResult.after.op = "append") =>
       LET T == transformations
           Inner == cResult.after.self
           s == cResult.after.args[1].ref
       IN  \A k \in 1..Len(cResult.log) :
              cResult.log[k].stage = Inner =>
                 LET mid == CFoldList(T, cResult.after.before,
                                      Returned(cResult.log[k].arg))
                     from == Len(CTrace(T, SubSeq(T[cResult.self], 1, k - 1))) + 1
                     part == <<Inner>> \o CTrace(T, cResult.after.before)
                                       \o CTrace(T, <<s>>)
                 IN  /\ Returned(cResult.log[k].ret) = CApply(T, s, mid)
                     /\ Len(cCalls) >= from + Len(part) - 1
                     /\ SubSeq(cCalls, from, from + Len(part) - 1) = part
                     /\ k < Len(cResult.log) =>
                           /\ Len(cCalls) >= from + Len(part)
                           /\ cCalls[from + Len(part)] = cResult.log[k + 1].stage
                     /\ k = Len(cResult.log) => Len(cCalls) = from + Len(part) - 1

\* C14 witness: Outer holds Inner; Inner held a stage, was then appended a
\* stage that changes the dataset, and Outer.transform has returned.
C14_Witness ==
    /\ cResult.status = "returned"
    /\ cResult.after.op = "append"
    /\ cResult.after.self # cResult.self
    /\ cResult.after.before # <<>>
    /\ cResult.after.args[1].ref = "FnMark"
    /\ cResult.log # <<>>
    /\ cResult.log[1].stage = cResult.after.self

\* A context for the current exception that no handler and no call has touched.
EOwnContext == [exception |-> handling_context.exception, is_handled |-> FALSE]

\* The calls the first n handlers of the chain make when each is given a
\* context that no other call has touched.
RECURSIVE ECallsOnOwnContext(_)
ECallsOnOwnContext(n) ==
    IF n = 0 THEN <<>>
    ELSE ECallsOnOwnContext(n - 1)
            \o Handle(exception_handlers[n], EOwnContext, n,
                      eInvoked[n].handled).calls

\* C15: a call of handle_exception starts with a context of its own whose
\* is_handled is false, however the call before ended; each handler it invokes
\* leaves is_handled as it would for a context no other call has touched, the
\* calls made are the ones these handlers make for this exception, and the
\* fallback shutdown follows exactly when none of them handled it.
C15_OwnContextPerCall ==
    /\ (ePc = "loop" /\ eInvoked = <<>>) =>
          handling_context = EOwnContext
    /\ \A k \in 1..Len(eInvoked) :
          Handle(exception_handlers[k], EOwnContext, k,
                 eInvoked[k].handled).ctx.is_handled = eInvoked[k].handled
    /\ handling_context.is_handled = (\E k \in 1..Len(eInvoked) : eInvoked[k].handled)
    /\ eEvents = ECallsOnOwnContext(Len(eInvoked))
                    \o (IF ePc = "done" /\ ~handling_context.is_handled
                        THEN <<ShutdownCall(0, handling_context.exception)>>
                        ELSE <<>>)

\* C15 witness: the call before ended handled; the current call, on the same
\* chain, invoked two handlers or more, none handled, and the fallback fired.
C15_Witness ==
    /\ ePrev = "handled"
    /\ ePc = "done"
    /\ Len(eInvoked) >= 2
    /\ ~handling_context.is_handled
    /\ eEvents[Len(eEvents)] = ShutdownCall(0, handling_context.exception)

\* The calls of eEvents without who made them.
ECallsMade == [i \in 1..Len(eEvents) |-> [eEvents[i] EXCEPT !.by = 0]]

\* What the plugin loader answered in the current call of the standard chain
\* (its first handler ends handled exactly when the plugin was loaded).
ELoaded == eInvoked # <<>> /\ eInvoked[1].handled

\* The current call of the standard chain is over.
EStandardDone == ePc = "done" /\ exception_handlers = StandardChain

\* C19 as stated: for every exception and every plugin-loader answer the
\* standard chain makes the calls GodExceptionHandler.handle_exception makes.
C19_ChainMakesGodCalls ==
    EStandardDone =>
       ECallsMade = GodExceptionHandler_handle_exception(handling_context.exception,
                                                         ELoaded)

\* C19 amended: the standard chain makes the calls GodExceptionHandler makes,
\* except for a ModuleNotFoundError that is not recovered (no module name, or
\* the plugin is not loaded): there it makes the same calls and one more, the
\* logger call "Unexpected exception", just before the final shutdown.
C19_ChainMakesGodCallsButForUnrecoveredModule ==
    EStandardDone =>
       LET ex == handling_context.exception
           god == GodExceptionHandler_handle_exception(ex, ELoaded)
       IN  IF IsInstance(ex, "ModuleNotFoundError") /\ ~ELoaded
           THEN /\ god # <<>>
                /\ god[Len(god)] = ShutdownCall(0, ex)
                /\ ECallsMade = SubSeq(god, 1, Len(god) - 1)
                                   \o <<LogCall(0, "Unexpected exception", ex, "ERROR"),
                                        ShutdownCall(0, ex)>>
           ELSE ECallsMade = god

\* C19 witness: the standard chain has handled a ModuleNotFoundError whose
\* plugin the loader did not load.
C19_Witness ==
    /\ EStandardDone
    /\ handling_context.exception = Exception("ModuleNotFoundError", "plugin")
    /\ ~ELoaded
    /\ Len(eEvents) = 3

\* Step s was constructed without a next_step and no set_next_step call, by a
\* caller or by Pipeline.append, has been made on it: its next reference is
\* none that such a call or a constructor argument puts there.
LNeverWired(s) == next_step[s] \notin LSteps \cup {Identity}

\* C11: a step constructed without a next_step and never rewired holds an
\* IdentityTransformer as its next step; a transform call on it runs the
\* step's own logic once, hands the result to that IdentityTransformer and
\* returns it: no other step runs and the call does not fail.
C11_DefaultNextIsIdentity ==
    \A s \in LSteps :
       LNeverWired(s) =>
          /\ next_step[s] \in IdentityTransformers
          /\ (lRun.self = s /\ lRun.status = "running" /\ lRun.ran # <<>>) =>
                /\ lRun.ran = <<s>>
                /\ lRun.cur \in IdentityTransformers
          /\ (lRun.self = s /\ lRun.status \notin {"none", "running"}) =>
                /\ lRun.status = "returned"
                /\ lRun.ran = <<s>>
                /\ lRun.dataset = StepLogic(s, lRun.input)

\* C11 witness: transform called on the FunctionTransformer step, which was
\* never wired, has returned, while another step has been rewired.
C11_Witness ==
    /\ LNeverWired("S2")
    /\ lRun.self = "S2"
    /\ lRun.status = "returned"
    /\ lRun.dataset # lRun.input
    /\ \E s \in LSteps : next_step[s] = Identity

\* The steps of `list` run in order on dataset d, each one's own logic once.
RECURSIVE LRunInOrder(_, _)
LRunInOrder(list, d) ==
    IF list = <<>> THEN d
    ELSE LRunInOrder(Tail(list), StepLogic(Head(list), d))

\* Pipeline q was built by appending pairwise distinct steps, no caller has
\* called set_next_step, and no other pipeline was given one of q's steps.
LBuiltOfDistinctSteps(q) ==
    /\ q \in lConstructed
    /\ transformers[q] # <<>>
    /\ lRewires = 0
    /\ \A i, j \in 1..Len(transformers[q]) :
          transformers[q][i] = transformers[q][j] => i = j
    /\ \A r \in LPipelines \ {q} :
          \A i \in 1..Len(transformers[q]) : \A j \in 1..Len(transformers[r]) :
             transformers[q][i] # transformers[r][j]

\* C16: a pipeline to which pairwise distinct steps S1..Sn were appended in
\* that order, by the constructor or by append, has next(Si) = S(i+1) for
\* i < n and next(Sn) an IdentityTransformer, and its transform(x) runs the
\* logic of S1..Sn once each in that order and returns the result.
C16_AppendLinksStepsInOrder ==
    \A q \in LPipelines :
       LBuiltOfDistinctSteps(q) =>
          LET list == transformers[q]
              n == Len(list)
          IN  /\ \A i \in 1..(n - 1) : next_step[list[i]] = list[i + 1]
              /\ next_step[list[n]] \in IdentityTransformers
              /\ (lRun.self = q /\ lRun.status = "running") =>
                    /\ Len(lRun.ran) <= n
                    /\ lRun.ran = SubSeq(list, 1, Len(lRun.ran))
              /\ (lRun.self = q /\ lRun.status \notin {"none", "running"}) =>
                    /\ lRun.status = "returned"
                    /\ lRun.ran = list
                    /\ lRun.dataset = LRunInOrder(list, lRun.input)

\* C16 witness: a pipeline of the three steps (the constructor takes two at
\* most here, so one was added by append) whose transform has returned.
C16_Witness ==
    \E q \in LPipelines :
       /\ LBuiltOfDistinctSteps(q)
       /\ Len(transformers[q]) = 3
       /\ lRun.self = q
       /\ lRun.status = "returned"
       /\ lRun.ran = transformers[q]

\* C18: Pipeline.append(stage) returns the pipeline it was called on, so
\* that append calls can be chained.
C18_AppendReturnsPipeline ==
    lLastOp.op = "append" => lLastOp.ret = lLastOp.self

\* The steps that transform runs from step n on along the next references
\* `nexts`, a step met again ending the walk.
RECURSIVE LWalk(_, _, _)
LWalk(nexts, n, fuel) ==
    IF n \notin LSteps \/ fuel = 0 THEN <<>>
    ELSE <<n>> \o LWalk(nexts, nexts[n], fuel - 1)

\* The reachable chain of a pipeline with stage list `list`.
LChain(nexts, list) ==
    IF list = <<>> THEN <<>> ELSE LWalk(nexts, list[1], Cardinality(LSteps))

\* This step is a call of Pipeline.append.
LIsAppend == lLastOp' # lLastOp /\ lLastOp'.op = "append"

\* The steps whose next reference P.append(t) is said to change: t and the
\* step that was P's last.
LRelinked ==
    {lLastOp'.args[1]}
       \cup (IF lLastOp'.before = <<>> THEN {}
             ELSE {lLastOp'.before[Len(lLastOp'.before)]})

\* Every step but t and P's last keeps its next reference, and every other
\* pipeline keeps its stage list.
LAppendFrame ==
    /\ \A s \in LSteps \ LRelinked : next_step'[s] = next_step[s]
    /\ \A r \in LPipelines \ {lLastOp'.self} : transformers'[r] = transformers[r]

\* C20 as stated: P.append(t) changes the next reference of t and of P's
\* previously last stage only, and leaves the stage list and the reachable
\* chain of every other pipeline as they were.  (Stated for a t that is not
\* P's last stage already: appending that one again is the case of C5.)
C20_AppendChangesOnlyTwoLinks ==
    [][(LIsAppend /\ Cardinality(LRelinked) = 2) =>
          /\ LAppendFrame
          /\ \A r \in LPipelines \ {lLastOp'.self} :
                LChain(next_step', transformers'[r]) = LChain(next_step, transformers[r])
      ]_vars

\* C20 amended: P.append(t) changes the next reference of t and of P's
\* previously last stage only and leaves the stage list of every other
\* pipeline as it was; the reachable chain of another pipeline is as it was if
\* that chain passed through neither t nor P's previously last stage.
C20_AppendChangesOnlyTwoLinksOthersApart ==
    [][LIsAppend =>
          /\ LAppendFrame
          /\ \A r \in LPipelines \ {lLastOp'.self} :
                LET chain == LChain(next_step, transformers[r])
                IN  (\A i \in 1..Len(chain) : chain[i] \notin LRelinked) =>
                       LChain(next_step', transformers'[r]) = chain
      ]_vars

\* C20 witness: a step was appended to a pipeline that held a step, while
\* another pipeline holds a chain that passes through neither of the two.
C20_Witness ==
    /\ lLastOp.op = "append"
    /\ lLastOp.before # <<>>
    /\ \E r \in LPipelines \ {lLastOp.self} :
          LET chain == LChain(next_step, transformers[r])
          IN  /\ Len(chain) >= 1
              /\ \A i \in 1..Len(chain) :
                    chain[i] \notin {lLastOp.args[1], lLastOp.before[Len(lLastOp.before)]}

\* How many times v occurs in sequence q.
HCount(q, v) == Cardinality({i \in 1..Len(q) : q[i] = v})

\* The writes of hLog made by the handlers at position d or deeper.
HWritesFrom(d) == SelectSeq(hLog, LAMBDA w : w.by >= d)

\* C17: a LoggerHttpRequestHandlerDecorator (at position d) has written
\* "begin" before its inner handler is invoked and invokes it once at most;
\* when its handle returns it has invoked the inner handler exactly once,
\* written "end" after everything the inner call wrote, and returns the inner
\* handler's response itself; when the inner handler raised, it has written no
\* "end" and its handle ends with that very exception.
C17_LoggerWritesAroundInnerCall ==
    \A d \in 1..(Len(hHandler) - 1) :
       hHandler[d] = "LoggerHttpRequestHandlerDecorator" =>
          LET begin == LogWrite(d, "Http request handler begin")
              end == LogWrite(d, "Http request handler end")
              mine == HWritesFrom(d)
          IN  /\ HCount(hCalls, d + 1) <= 1
              /\ HCount(hCalls, d + 1) = 1 =>
                    (mine # <<>> /\ mine[1] = begin /\ HCount(hLog, begin) = 1)
              /\ hOutcome[d].status = "returned" =>
                    /\ HCount(hCalls, d + 1) = 1
                    /\ hOutcome[d + 1].status = "returned"
                    /\ hOutcome[d].resp = hOutcome[d + 1].resp
                    /\ Len(mine) >= 2
                    /\ mine[Len(mine)] = end
                    /\ HCount(hLog, end) = 1
              /\ HCount(hLog, end) >= 1 => hOutcome[d + 1].status = "returned"
              /\ (hOutcome[d + 1].status = "raised" /\ hOutcome[d].status # "none") =>
                    /\ hOutcome[d] = hOutcome[d + 1]
                    /\ HCount(hLog, end) = 0

\* C17 witness: two logging decorators, one around the other, have returned:
\* the writes are begin, begin, end, end.
C17_Witness ==
    /\ hPhase = "done"
    /\ Len(hHandler) >= 3
    /\ hHandler[1] = "LoggerHttpRequestHandlerDecorator"
    /\ hHandler[2] = "LoggerHttpRequestHandlerDecorator"
    /\ hOutcome[1].status = "returned"
    /\ Len(hLog) = 4
    /\ hCalls = <<1, 2, 3>>

\* What the k-th file operation of the current call did ("ok" for one that
\* was never reached).
HIoAt(k) == IF k <= Len(hIo) THEN hIo[k] ELSE "ok"

\* The texts of a sequence of log writes.
HTexts(writes) == [i \in 1..Len(writes) |-> writes[i].text]

\* C21: when main's handler, ExceptionHandling(Logger(Ok)), has answered a
\* request, the texts it wrote to the log and the status of its response are
\* those of ExceptionHandlingLoggingOkHttpRequestHandler.handle for the same
\* outcomes of the file operations: status 200 when all of them succeeded,
\* 500 when one failed, and neither handle raises.
C21_DecoratorsMatchInheritance ==
    (hPhase = "done" /\ hHandler = MainHandler) =>
       LET inherited == ExceptionHandlingLoggingOkHttpRequestHandler_handle(
                            HIoAt(1), HIoAt(2))
       IN  /\ HTexts(hLog) = HTexts(inherited.writes)
           /\ hOutcome[1].status = "returned"
           /\ inherited.out.status = "returned"
           /\ hOutcome[1].resp.status_code = inherited.out.resp.status_code
           /\ hOutcome[1].resp.status_code =
                 (IF \A k \in 1..Len(hIo) : hIo[k] = "ok" THEN 200 ELSE 500)

\* C21 witness: main's handler has answered a request during which "begin"
\* was written and the "end" write failed.
C21_Witness ==
    /\ hPhase = "done"
    /\ hHandler = MainHandler
    /\ hIo = <<"ok", "write_fails">>
    /\ Len(hLog) = 1
    /\ hOutcome[1].resp.status_code = 500


\* The HotColdLogger.log call has ended, by returning or by raising.
SDone == sCall.status \in {"returned", "raised"}

\* The log calls the HotColdLogger made itself, in order.
SForwarded == SelectSeq(sInvoked, LAMBDA c : c.target.path # "root" /\ c.target.idx = 0)

\* The log calls the ForEachLogger of a path made, in order.
SDelivered(path) == SelectSeq(sInvoked, LAMBDA c : c.target.path = path /\ c.target.idx > 0)

SPathOfLevel == IF sCall.level \in {"WARN", "ERROR"} THEN "hot" ELSE "cold"

SOtherPath == IF SPathOfLevel = "hot" THEN "cold" ELSE "hot"

\* One log call, with the caller's message and level, to each logger of the
\* path's ForEachLogger in construction order (none when the path logger is
\* a leaf).
SOnceToEach(path) ==
    [i \in 1..Len(sLogger[path].loggers) |->
        SLogInvoked(SObj(path, i), sCall.message, sCall.level)]

\* The HotColdLogger forwarded the caller's message and level once, to the
\* hot path logger for WARN and ERROR and to the cold path logger for DEBUG
\* and INFO, and nothing reached the other path.
SRoutedOnce ==
    /\ sCall.level \in LogLevels
    /\ SForwarded = <<SLogInvoked(SObj(SPathOfLevel, 0), sCall.message, sCall.level)>>
    /\ SDelivered(SOtherPath) = <<>>

\* C22 as stated: every ended HotColdLogger.log call has forwarded the
\* message, unchanged and once, to the hot path logger alone for WARN and
\* ERROR and to the cold path logger alone for DEBUG and INFO, and a
\* ForEachLogger on that path has delivered it once to each of its loggers
\* in construction order.
C22_ForEachDeliversToEveryLogger ==
    SDone => /\ SRoutedOnce
             /\ SDelivered(SPathOfLevel) = SOnceToEach(SPathOfLevel)

\* C22, amended: every ended HotColdLogger.log call has forwarded the
\* message, unchanged and once, to the hot path logger alone for WARN and
\* ERROR and to the cold path logger alone for DEBUG and INFO.  When the call
\* returns, a ForEachLogger on that path has delivered the message once to
\* each of its loggers in construction order.  When the call raises, the
\* ForEachLogger has delivered it once to each logger in construction order
\* up to and including a FileLogger, the one whose log raised, and to no
\* logger after it; without a ForEachLogger the path logger itself is that
\* FileLogger.
C22_ForEachDeliversUntilALoggerRaises ==
    SDone =>
        LET path == SPathOfLevel
            delivered == SDelivered(path)
            each == SOnceToEach(path)
        IN  /\ SRoutedOnce
            /\ Len(delivered) <= Len(each)
            /\ delivered = SubSeq(each, 1, Len(delivered))
            /\ sCall.status = "returned" => delivered = each
            /\ sCall.status = "raised" =>
                  /\ sCall.exc.type = "OSError"
                  /\ IF sLogger[path].cls = "ForEachLogger"
                     THEN /\ delivered # <<>>
                          /\ SClass(delivered[Len(delivered)].target) = "FileLogger"
                     ELSE sLogger[path].cls = "FileLogger"

\* good_main's logger was called at level INFO: the cold path's ForEachLogger
\* called its StdoutLogger, which printed, and its FileLogger, which raised;
\* the DatabaseLogger after it and the hot path got nothing.
C22_Witness ==
    /\ sLogger = GoodMainLogger
    /\ sCall.status = "raised"
    /\ sCall.level = "INFO"
    /\ Len(SDelivered("cold")) = 2
    /\ SDelivered("hot") = <<>>
    /\ Len(sOut) = 1
    /\ sOut[1].sink = "stdout"
    /\ sOut[1].text = Format(sCall.message, "INFO")

====
